---------------------------- MODULE Spec2Model ----------------------------
(***************************************************************************)
(* Exhibit-label service: the label store (database.py) and the HTTP       *)
(* routes over it (app.py).                                                *)
(*                                                                         *)
(* Text is modelled character by character: a Python str is a sequence of  *)
(* one-character strings.  A JSON value (what request.get_json() and       *)
(* json.loads() return) is a tagged record:                                *)
(*    [t |-> "null"]                 None                                  *)
(*    [t |-> "bool", b |-> TRUE]     True / False                          *)
(*    [t |-> "int",  n |-> 7]        int                                   *)
(*    [t |-> "str",  s |-> <<..>>]   str                                   *)
(*    [t |-> "list", items |-> <<v1, ...>>]                                *)
(*    [t |-> "dict", items |-> << [k |-> <<..>>, v |-> v1], ... >>]        *)
(* A dict keeps its insertion order, as Python's does; its keys are        *)
(* distinct strings.  Floats are not modelled.                             *)
(***************************************************************************)
EXTENDS Integers, Sequences, FiniteSets, TLC

(***************************************************************************)
(* Python values                                                           *)
(***************************************************************************)
PyNone == [t |-> "null"]
PyBool(b) == [t |-> "bool", b |-> b]
PyInt(n) == [t |-> "int", n |-> n]
PyStrV(s) == [t |-> "str", s |-> s]
PyList(items) == [t |-> "list", items |-> items]
PyDict(items) == [t |-> "dict", items |-> items]
KV(k, v) == [k |-> k, v |-> v]

\* bool(v): the truth test behind `if not data` and `if not label_data`.
Truthy(v) ==
    CASE v.t = "null" -> FALSE
      [] v.t = "bool" -> v.b
      [] v.t = "int"  -> v.n # 0
      [] v.t = "str"  -> v.s # <<>>
      [] v.t = "list" -> v.items # <<>>
      [] v.t = "dict" -> v.items # <<>>

Digits == <<"0", "1", "2", "3", "4", "5", "6", "7", "8", "9">>
IsDigit(c) == \E d \in 1..10 : Digits[d] = c
DigitVal(c) == (CHOOSE d \in 1..10 : Digits[d] = c) - 1

RECURSIVE NatChars(_)
NatChars(n) == IF n < 10 THEN <<Digits[n + 1]>>
               ELSE NatChars(n \div 10) \o <<Digits[(n % 10) + 1]>>

\* int.__repr__
IntChars(n) == IF n < 0 THEN <<"-">> \o NatChars(0 - n) ELSE NatChars(n)

(***************************************************************************)
(* json.dumps, with Python's defaults: separators ", " and ": ", and the   *)
(* characters '"' and '\' of a string escaped by a backslash.  (The        *)
(* control and non-ASCII characters, which dumps escapes too, are not in   *)
(* the alphabet of the model.)                                             *)
(***************************************************************************)
RECURSIVE EscapeChars(_)
EscapeChars(s) ==
    IF s = <<>> THEN <<>>
    ELSE (IF Head(s) \in {"\"", "\\"} THEN <<"\\", Head(s)>> ELSE <<Head(s)>>)
         \o EscapeChars(Tail(s))

EncodeString(s) == <<"\"">> \o EscapeChars(s) \o <<"\"">>

RECURSIVE json_dumps(_)
RECURSIVE DumpList(_)
RECURSIVE DumpDict(_)
DumpList(items) ==
    IF items = <<>> THEN <<>>
    ELSE json_dumps(Head(items))
         \o (IF Len(items) > 1 THEN <<",", " ">> ELSE <<>>)
         \o DumpList(Tail(items))

DumpDict(items) ==
    IF items = <<>> THEN <<>>
    ELSE EncodeString(Head(items).k) \o <<":", " ">> \o json_dumps(Head(items).v)
         \o (IF Len(items) > 1 THEN <<",", " ">> ELSE <<>>)
         \o DumpDict(Tail(items))

json_dumps(v) ==
    CASE v.t = "null" -> <<"n", "u", "l", "l">>
      [] v.t = "bool" -> IF v.b THEN <<"t", "r", "u", "e">>
                                ELSE <<"f", "a", "l", "s", "e">>
      [] v.t = "int"  -> IntChars(v.n)
      [] v.t = "str"  -> EncodeString(v.s)
      [] v.t = "list" -> <<"[">> \o DumpList(v.items) \o <<"]">>
      [] v.t = "dict" -> <<"{">> \o DumpDict(v.items) \o <<"}">>

(***************************************************************************)
(* json.loads: a recursive-descent decoder over the characters.  A parse   *)
(* step returns [ok, v, i]: whether a value was read, the value, and the   *)
(* index of the first character after it.  ok = FALSE is JSONDecodeError.  *)
(***************************************************************************)
Fail(i) == [ok |-> FALSE, v |-> PyNone, i |-> i]
Got(v, i) == [ok |-> TRUE, v |-> v, i |-> i]

RECURSIVE SkipWs(_, _)
SkipWs(text, i) ==
    IF i <= Len(text) /\ text[i] = " " THEN SkipWs(text, i + 1) ELSE i

StartsWith(text, i, word) ==
    /\ i + Len(word) - 1 <= Len(text)
    /\ SubSeq(text, i, i + Len(word) - 1) = word

\* The characters of a string literal from index i (after the opening
\* quote) up to the closing quote; acc is what was read so far.
RECURSIVE ScanString(_, _, _)
ScanString(text, i, acc) ==
    IF i > Len(text) THEN Fail(i)
    ELSE IF text[i] = "\"" THEN Got(PyStrV(acc), i + 1)
    ELSE IF text[i] = "\\"
         THEN IF i + 1 <= Len(text) /\ text[i + 1] \in {"\"", "\\", "/"}
              THEN ScanString(text, i + 2, Append(acc, text[i + 1]))
              ELSE Fail(i)
    ELSE ScanString(text, i + 1, Append(acc, text[i]))

RECURSIVE ScanDigits(_, _, _)
ScanDigits(text, i, acc) ==
    IF i <= Len(text) /\ IsDigit(text[i])
    THEN ScanDigits(text, i + 1, 10 * acc + DigitVal(text[i]))
    ELSE [n |-> acc, i |-> i]

\* -? (0 | [1-9][0-9]*)
ScanNumber(text, i) ==
    LET neg == i <= Len(text) /\ text[i] = "-"
        j == IF neg THEN i + 1 ELSE i
    IN  IF j > Len(text) \/ ~IsDigit(text[j]) THEN Fail(i)
        ELSE IF text[j] = "0" THEN Got(PyInt(0), j + 1)
        ELSE LET r == ScanDigits(text, j, 0)
             IN  Got(PyInt(IF neg THEN 0 - r.n ELSE r.n), r.i)

RECURSIVE ParseValue(_, _)
RECURSIVE ParseItems(_, _, _)
RECURSIVE ParseMembers(_, _, _)

\* After "[" and at least one value position: value ("," value)* "]"
ParseItems(text, i, acc) ==
    LET r == ParseValue(text, SkipWs(text, i))
    IN  IF ~r.ok THEN r
        ELSE LET j == SkipWs(text, r.i)
             IN  IF j > Len(text) THEN Fail(j)
                 ELSE IF text[j] = "," THEN ParseItems(text, j + 1, Append(acc, r.v))
                 ELSE IF text[j] = "]" THEN Got(PyList(Append(acc, r.v)), j + 1)
                 ELSE Fail(j)

\* After "{": string ":" value ("," string ":" value)* "}".  A repeated
\* key keeps its first position and takes the last value, as dict does.
PutKey(acc, k, v) ==
    IF \E n \in 1..Len(acc) : acc[n].k = k
    THEN [n \in 1..Len(acc) |-> IF acc[n].k = k THEN KV(k, v) ELSE acc[n]]
    ELSE Append(acc, KV(k, v))

ParseMembers(text, i, acc) ==
    LET j == SkipWs(text, i)
    IN  IF j > Len(text) \/ text[j] # "\"" THEN Fail(j)
        ELSE LET key == ScanString(text, j + 1, <<>>)
             IN  IF ~key.ok THEN key
                 ELSE LET c == SkipWs(text, key.i)
                      IN  IF c > Len(text) \/ text[c] # ":" THEN Fail(c)
                          ELSE LET r == ParseValue(text, SkipWs(text, c + 1))
                               IN  IF ~r.ok THEN r
                                   ELSE LET e == SkipWs(text, r.i)
                                            acc2 == PutKey(acc, key.v.s, r.v)
                                        IN  IF e > Len(text) THEN Fail(e)
                                            ELSE IF text[e] = ","
                                                 THEN ParseMembers(text, e + 1, acc2)
                                            ELSE IF text[e] = "}"
                                                 THEN Got(PyDict(acc2), e + 1)
                                            ELSE Fail(e)

ParseValue(text, i) ==
    IF i > Len(text) THEN Fail(i)
    ELSE IF text[i] = "\"" THEN ScanString(text, i + 1, <<>>)
    ELSE IF text[i] = "{"
         THEN LET j == SkipWs(text, i + 1)
              IN  IF j <= Len(text) /\ text[j] = "}" THEN Got(PyDict(<<>>), j + 1)
                  ELSE ParseMembers(text, j, <<>>)
    ELSE IF text[i] = "["
         THEN LET j == SkipWs(text, i + 1)
              IN  IF j <= Len(text) /\ text[j] = "]" THEN Got(PyList(<<>>), j + 1)
                  ELSE ParseItems(text, j, <<>>)
    ELSE IF StartsWith(text, i, <<"n", "u", "l", "l">>) THEN Got(PyNone, i + 4)
    ELSE IF StartsWith(text, i, <<"t", "r", "u", "e">>) THEN Got(PyBool(TRUE), i + 4)
    ELSE IF StartsWith(text, i, <<"f", "a", "l", "s", "e">>) THEN Got(PyBool(FALSE), i + 5)
    ELSE ScanNumber(text, i)

\* json.loads(text): one value, then nothing but whitespace.
json_loads(text) ==
    LET r == ParseValue(text, SkipWs(text, 1))
    IN  IF r.ok /\ SkipWs(text, r.i) = Len(text) + 1 THEN r ELSE Fail(r.i)

(***************************************************************************)
(* Bounds of the model                                                     *)
(***************************************************************************)
\* Requests to /api/create_label that may be in flight at once.
NWorkers == 2
\* How many values uuid.uuid4() can take in a run.
NUuids == 3

(***************************************************************************)
(* database.py.  The table `labels` is a set of rows [id, data]; the       *)
(* PRIMARY KEY constraint is enforced by the INSERT, not by the shape of   *)
(* the state.  The column created_at is never read and is left out.  A     *)
(* connection is assumed to open, and a statement to run without an I/O    *)
(* error.                                                                  *)
(***************************************************************************)
HasRow(table, id) == \E r \in table : r.id = id

\* init_db: CREATE TABLE IF NOT EXISTS labels (id TEXT PRIMARY KEY, ...)
\* on a fresh database file: the empty table.
init_db == {}

\* Variant of sql_insert: INSERT OR REPLACE, which overwrites the row.
sql_insert_or_replace(table, id, data) ==
    [ok |-> TRUE,
     table |-> {r \in table : r.id # id} \cup {[id |-> id, data |-> data]}]

\* INSERT INTO labels (id, data) VALUES (?, ?), then commit.  A second row
\* with the id of an existing one violates the primary key: sqlite3 raises
\* IntegrityError (an sqlite3.Error) and the table is left as it was.
sql_insert(table, id, data) ==
    IF HasRow(table, id)
    THEN [ok |-> FALSE, table |-> table]
    ELSE [ok |-> TRUE, table |-> table \cup {[id |-> id, data |-> data]}]

\* Variant of store_label_data: the INSERT is never committed.
store_label_data_no_commit(table, label_id, data) ==
    [table |-> table, raised |-> FALSE]

\* store_label_data(label_id, data): the new table, and whether the call
\* raised.  `except Error` prints the sqlite3 error and the call returns
\* normally.
store_label_data(table, label_id, data) ==
    LET json_data == json_dumps(data)
        r == sql_insert(table, label_id, json_data)
    IN  IF r.ok
        THEN [table |-> r.table, raised |-> FALSE]
        ELSE [table |-> table, raised |-> FALSE]

\* get_label_data(label_id): the decoded document of the row, or None when
\* there is no row or its data does not decode.
get_label_data(table, label_id) ==
    IF HasRow(table, label_id)
    THEN LET row == CHOOSE r \in table : r.id = label_id
             d == json_loads(row.data)
         IN  IF d.ok THEN d.v ELSE PyNone
    ELSE PyNone

\* delete_label_data(label_id), imported by app.py from database: removes
\* the row if present and returns whether a row was removed.
delete_label_data(table, label_id) ==
    [table |-> {r \in table : r.id # label_id},
     removed |-> HasRow(table, label_id)]

\* get_all_label_summaries(), imported by app.py from database: every
\* stored document (here as a set: the order is not specified).
get_all_label_summaries(table) ==
    {json_loads(r.data).v : r \in {q \in table : json_loads(q.data).ok}}

(***************************************************************************)
(* app.py: text helpers                                                    *)
(***************************************************************************)
Lowercase == <<"a", "b", "c", "d", "e", "f", "g", "h", "i", "j", "k", "l", "m",
               "n", "o", "p", "q", "r", "s", "t", "u", "v", "w", "x", "y", "z">>
Uppercase == <<"A", "B", "C", "D", "E", "F", "G", "H", "I", "J", "K", "L", "M",
               "N", "O", "P", "Q", "R", "S", "T", "U", "V", "W", "X", "Y", "Z">>

\* str.lower(), character by character
LowerChar(c) ==
    IF \E n \in 1..26 : Uppercase[n] = c
    THEN Lowercase[CHOOSE n \in 1..26 : Uppercase[n] = c]
    ELSE c
Lower(s) == [n \in 1..Len(s) |-> LowerChar(s[n])]

\* The index of the last "." of s, or 0.
LastDot(s) ==
    IF \E n \in 1..Len(s) : s[n] = "."
    THEN CHOOSE n \in 1..Len(s) :
             /\ s[n] = "."
             /\ \A m \in (n + 1)..Len(s) : s[m] # "."
    ELSE 0

\* filename.rsplit('.', 1)[1], for a filename holding a dot
RsplitDotLast(s) == SubSeq(s, LastDot(s) + 1, Len(s))

ALLOWED_EXTENSIONS ==
    {<<"p", "n", "g">>, <<"j", "p", "g">>, <<"j", "p", "e", "g">>, <<"g", "i", "f">>, <<"m", "p", "3">>, <<"w", "a", "v">>}

UPLOADS_FOLDER == <<"u", "p", "l", "o", "a", "d", "s">>

\* Variant of allowed_file: the extension is compared without .lower().
allowed_file_case_sensitive(filename) ==
    /\ \E n \in 1..Len(filename) : filename[n] = "."
    /\ RsplitDotLast(filename) \in ALLOWED_EXTENSIONS

allowed_file(filename) ==
    /\ \E n \in 1..Len(filename) : filename[n] = "."
    /\ Lower(RsplitDotLast(filename)) \in ALLOWED_EXTENSIONS

(***************************************************************************)
(* werkzeug.utils.secure_filename, on ASCII names: path separators become  *)
(* spaces, runs of whitespace become one "_" (none at the ends), every     *)
(* character outside [A-Za-z0-9_.-] is dropped, and "." and "_" are        *)
(* stripped from both ends.                                                *)
(***************************************************************************)
ReplaceSep(s) == [n \in 1..Len(s) |-> IF s[n] = "/" THEN " " ELSE s[n]]

RECURSIVE LStrip(_, _)
LStrip(s, chars) ==
    IF s # <<>> /\ Head(s) \in chars THEN LStrip(Tail(s), chars) ELSE s

RECURSIVE RStrip(_, _)
RStrip(s, chars) ==
    IF s # <<>> /\ s[Len(s)] \in chars
    THEN RStrip(SubSeq(s, 1, Len(s) - 1), chars) ELSE s

Strip(s, chars) == RStrip(LStrip(s, chars), chars)

\* "_".join(s.split()) for s without whitespace at its ends
RECURSIVE JoinWords(_)
JoinWords(s) ==
    IF s = <<>> THEN <<>>
    ELSE IF Head(s) = " "
         THEN (IF Head(Tail(s)) = " " THEN <<>> ELSE <<"_">>) \o JoinWords(Tail(s))
         ELSE <<Head(s)>> \o JoinWords(Tail(s))

SafeChar(c) ==
    \/ \E n \in 1..26 : Lowercase[n] = c \/ Uppercase[n] = c
    \/ IsDigit(c)
    \/ c \in {"_", ".", "-"}

secure_filename(filename) ==
    Strip(SelectSeq(JoinWords(Strip(ReplaceSep(filename), {" "})), SafeChar),
          {".", "_"})

(***************************************************************************)
(* uuid.uuid4(): 32 hexadecimal digits.  The model draws from NUuids       *)
(* values, never the same one twice; their first eight digits take only    *)
(* two values, so that label ids, which keep only those, can collide.      *)
(***************************************************************************)
HexDigits == <<"0", "1", "2", "3", "4", "5", "6", "7",
               "8", "9", "a", "b", "c", "d", "e", "f">>

\* The characters label_id keeps of str(uuid.uuid4()).
LabelIdLen == 8

UuidHex(k) ==
    [n \in 1..32 |-> IF n <= LabelIdLen THEN HexDigits[(k % 2) + 11]
                                         ELSE HexDigits[(k % 16) + 1]]

Uuids == {UuidHex(k) : k \in 1..NUuids}

\* str(uuid.uuid4())[:8]: the text form is 8-4-4-4-12, so the first eight
\* characters are the first eight hexadecimal digits.
short_id(u) == SubSeq(u, 1, LabelIdLen)

\* url_for('unified_exhibit_site', label_id=...), url_for('uploaded_file', ...)
url_for_exhibit(label_id) == <<"/", "e", "x", "h", "i", "b", "i", "t", "/">> \o label_id
url_for_uploaded_file(filename) == <<"/", "u", "p", "l", "o", "a", "d", "s", "/">> \o filename

\* url_for(..., _external=True): the path behind the server's origin
external_url(path) == <<"h", "t", "t", "p", ":", "/", "/", "l", "o", "c", "a", "l", "h", "o", "s", "t", ":", "5", "0", "0", "0">> \o path

\* generate_qrcode_base64(url): a function of the url alone; the image is
\* kept as the url it encodes.
generate_qrcode_base64(url) == [qr_of |-> url]

(***************************************************************************)
(* app.py: the viewer's choice of a content template                       *)
(***************************************************************************)
\* dict.get(key, default)
DictGet(d, key, default) ==
    IF \E n \in 1..Len(d.items) : d.items[n].k = key
    THEN d.items[CHOOSE n \in 1..Len(d.items) : d.items[n].k = key].v
    ELSE default

\* repr() of a str: in single quotes, or in double quotes when it holds a
\* single quote and no double quote; the backslash, the quote and the
\* control characters \n, \r, \t are escaped.
RECURSIVE ReprChars(_, _)
ReprChars(s, quote) ==
    IF s = <<>> THEN <<>>
    ELSE LET c == Head(s)
             e == CASE c = "\\" -> <<"\\", "\\">>
                    [] c = quote -> <<"\\", quote>>
                    [] c = "\n" -> <<"\\", "n">>
                    [] c = "\r" -> <<"\\", "r">>
                    [] c = "\t" -> <<"\\", "t">>
                    [] OTHER -> <<c>>
         IN  e \o ReprChars(Tail(s), quote)

ReprString(s) ==
    LET has(c) == \E n \in 1..Len(s) : s[n] = c
        quote == IF has("'") /\ ~has("\"") THEN "\"" ELSE "'"
    IN  <<quote>> \o ReprChars(s, quote) \o <<quote>>

\* repr(v): what str() of a list or a dict shows of its members
RECURSIVE PyRepr(_)
ReprList(items) ==
    LET RECURSIVE Go(_)
        Go(n) == IF n > Len(items) THEN <<>>
                 ELSE (IF n > 1 THEN <<",", " ">> ELSE <<>>)
                          \o PyRepr(items[n]) \o Go(n + 1)
    IN  <<"[">> \o Go(1) \o <<"]">>

ReprDict(items) ==
    LET RECURSIVE Go(_)
        Go(n) == IF n > Len(items) THEN <<>>
                 ELSE (IF n > 1 THEN <<",", " ">> ELSE <<>>)
                          \o ReprString(items[n].k) \o <<":", " ">>
                          \o PyRepr(items[n].v) \o Go(n + 1)
    IN  <<"{">> \o Go(1) \o <<"}">>

PyRepr(v) ==
    CASE v.t = "str"  -> ReprString(v.s)
      [] v.t = "int"  -> IntChars(v.n)
      [] v.t = "null" -> <<"N", "o", "n", "e">>
      [] v.t = "bool" -> IF v.b THEN <<"T", "r", "u", "e">> ELSE <<"F", "a", "l", "s", "e">>
      [] v.t = "list" -> ReprList(v.items)
      [] v.t = "dict" -> ReprDict(v.items)

\* str(v), as an f-string formats v: a str as it is, any other value by
\* its repr
PyFormat(v) ==
    IF v.t = "str" THEN v.s ELSE PyRepr(v)

\* template_type = label_data.get('template', 'minimalist');
\* current_template = f'{template_type}_label.html'
current_template_of(label_data) ==
    PyFormat(DictGet(label_data, <<"t", "e", "m", "p", "l", "a", "t", "e">>, PyStrV(<<"m", "i", "n", "i", "m", "a", "l", "i", "s", "t">>)))
        \o <<"_", "l", "a", "b", "e", "l", ".", "h", "t", "m", "l">>

\* The content templates of the repository.
TemplateFiles ==
    {<<"m", "i", "n", "i", "m", "a", "l", "i", "s", "t", "_", "l", "a", "b", "e", "l", ".", "h", "t", "m", "l">>,
     <<"t", "i", "m", "e", "l", "i", "n", "e", "_", "l", "a", "b", "e", "l", ".", "h", "t", "m", "l">>,
     <<"g", "a", "l", "l", "e", "r", "y", "_", "l", "a", "b", "e", "l", ".", "h", "t", "m", "l">>}

\* base_site.html, given current_template: the layout the page shows.
rendered_layout(current_template) ==
    IF current_template \in TemplateFiles
    THEN current_template
    ELSE <<"m", "i", "n", "i", "m", "a", "l", "i", "s", "t", "_", "l", "a", "b", "e", "l", ".", "h", "t", "m", "l">>

(***************************************************************************)
(* Inputs                                                                  *)
(***************************************************************************)
DocGallery == PyDict(<<KV(<<"t", "i", "t", "l", "e">>, PyStrV(<<"V", "a", "s", "e">>)),
                       KV(<<"t", "e", "m", "p", "l", "a", "t", "e">>, PyStrV(<<"g", "a", "l", "l", "e", "r", "y">>))>>)
DocTimeline == PyDict(<<KV(<<"t", "e", "m", "p", "l", "a", "t", "e">>, PyStrV(<<"t", "i", "m", "e", "l", "i", "n", "e">>))>>)
DocMinimalist == PyDict(<<KV(<<"t", "e", "m", "p", "l", "a", "t", "e">>, PyStrV(<<"m", "i", "n", "i", "m", "a", "l", "i", "s", "t">>))>>)
DocNoTemplate == PyDict(<<KV(<<"t", "i", "t", "l", "e">>, PyStrV(<<"U", "r", "n">>))>>)
DocUnknownTemplate == PyDict(<<KV(<<"t", "e", "m", "p", "l", "a", "t", "e">>, PyStrV(<<"f", "a", "n", "c", "y">>))>>)
\* A document whose template field is not a string.
DocListTemplate == PyDict(<<KV(<<"t", "e", "m", "p", "l", "a", "t", "e">>, PyList(<<PyStrV(<<"a">>)>>))>>)
DocEmpty == PyDict(<<>>)
DocNested ==
    PyDict(<<KV(<<"t", "i", "t", "l", "e">>, PyStrV(<<"a", "\"", "\\", " ", "b">>)),
             KV(<<"m", "e", "d", "i", "a">>, PyList(<<PyStrV(<<"/", "u", "p", "l", "o", "a", "d", "s", "/", "x", ".", "p", "n", "g">>), PyInt(-12),
                                     PyBool(TRUE), PyBool(FALSE), PyNone,
                                     PyList(<<>>)>>)),
             KV(<<"m", "e", "t", "a">>, PyDict(<<KV(<<"y", "e", "a", "r">>, PyInt(1905)),
                                   KV(<<>>, PyDict(<<>>))>>))>>)
DocList == PyList(<<PyInt(1)>>)
\* A document that refers to an uploaded file by its retrieval URI.
MediaFile == UuidHex(1) \o <<"_", "a", ".", "p", "n", "g">>
DocWithMedia ==
    PyDict(<<KV(<<"i", "m", "a", "g", "e">>, PyStrV(url_for_uploaded_file(MediaFile)))>>)

\* The JSON documents a client may post to /api/create_label: objects,
\* and an array.
JsonBodies ==
    {DocGallery, DocTimeline, DocNoTemplate, DocUnknownTemplate, DocList,
     DocEmpty}

\* Other JSON values a client may post.
OtherJsonBodies == {PyNone, PyInt(0), PyList(<<>>)}

\* A request body: a JSON value, none at all, or one that is not JSON.
JsonRequests == {[kind |-> "json", v |-> v] : v \in JsonBodies}
OtherRequests ==
    {[kind |-> "absent"], [kind |-> "malformed"]}
        \cup {[kind |-> "json", v |-> v] : v \in OtherJsonBodies}
Bodies == JsonRequests \cup OtherRequests

\* The documents handed to store_label_data directly.
StoreDocs ==
    {DocGallery, DocMinimalist, DocNoTemplate, DocEmpty, DocNested, DocList}

\* The multipart requests to /api/upload: without a file part, or with a
\* file part of some client filename.
Filenames ==
    {<<>>, <<"a", ".", "p", "n", "g">>, <<"a", ".", "P", "N", "G">>, <<"b", ".", "J", "p", "G">>, <<"a", ".", "e", "x", "e">>, <<"p", "n", "g">>, <<".", "p", "n", "g">>,
     <<"a", ".", "b", ".", "g", "i", "f">>, <<"a", ".", "p", "n", "g", ".", "e", "x", "e">>, <<"a", ".">>, <<".", ".", "/", "a", ".", "j", "p", "e", "g">>, <<"a", " ", "b", ".", "w", "a", "v">>,
     <<"a", ".", "m", "p", "3">>, <<"a", ".", "m", "p", "4">>, <<"a", ".", "p", "n", "g", "/">>}

UploadRequests ==
    {[has_file |-> FALSE, filename |-> <<>>]}
        \cup {[has_file |-> TRUE, filename |-> f] : f \in Filenames}

LabelIds == {short_id(u) : u \in Uuids}

\* Identifiers a client may ask for: the generated ones and one that no
\* create ever generates.
RequestIds == LabelIds \cup {<<"d", "o", "e", "s", "n", "o", "t", "e", "x", "i", "s", "t">>}

Workers == 1..NWorkers

\* The values of `written` at an identifier that holds no row: never
\* stored under, or its row removed.
NoDoc == [t |-> "nodoc"]
Removed == [t |-> "removed"]

(***************************************************************************)
(* State                                                                   *)
(***************************************************************************)
VARIABLES
    labels,    \* the table `labels` of labels.db: a set of rows [id, data]
    uploads,   \* the names of the files in UPLOADS_FOLDER
    used,      \* the values uuid.uuid4() has returned
    workers,   \* per request slot: a request between two accesses of the store
    last,      \* the last completed request (or direct call) and its answer
    written    \* history: per id, the document its row was inserted with

vars == <<labels, uploads, used, workers, last, written>>

Idle == [pc |-> "idle"]

Init ==
    /\ labels = init_db
    /\ uploads = {}
    /\ used = {}
    /\ workers = [w \in Workers |-> Idle]
    /\ last = [op |-> "none", status |-> 0]
    /\ written = [id \in RequestIds |-> NoDoc]

(***************************************************************************)
(* request.get_json(): the value of a JSON body.  A body that is not JSON  *)
(* makes it raise (BadRequest).  Without a JSON body it returns None or    *)
(* raises (UnsupportedMediaType), depending on the Flask release.          *)
(***************************************************************************)
get_json(body) ==
    CASE body.kind = "json" -> {[raised |-> FALSE, v |-> body.v]}
      [] body.kind = "malformed" -> {[raised |-> TRUE, v |-> PyNone]}
      [] body.kind = "absent" -> {[raised |-> FALSE, v |-> PyNone],
                                  [raised |-> TRUE, v |-> PyNone]}

(***************************************************************************)
(* POST /api/create_label, first part: the body is read and checked and    *)
(* the identifier drawn.  Another request may run before the INSERT.       *)
(***************************************************************************)
create_label_begin(w, body) ==
    /\ workers[w].pc = "idle"
    /\ \E j \in get_json(body) :
           IF j.raised
           THEN /\ last' = [op |-> "create_label", body |-> body,
                            status |-> 500, error |-> "Internal server error"]
                /\ UNCHANGED <<workers, used>>
           ELSE IF ~Truthy(j.v)
           THEN /\ last' = [op |-> "create_label", body |-> body,
                            status |-> 400,
                            error |-> "No JSON data provided in request body."]
                /\ UNCHANGED <<workers, used>>
           ELSE \E u \in Uuids \ used :
                    /\ used' = used \cup {u}
                    /\ workers' = [workers EXCEPT ![w] =
                                       [pc |-> "store", label_id |-> short_id(u),
                                        data |-> j.v]]
                    /\ UNCHANGED last
    /\ UNCHANGED <<labels, uploads, written>>

(***************************************************************************)
(* POST /api/create_label, second part: store_label_data and the answer.   *)
(* (`body` and `data` in a record of `last` are the request's, not fields  *)
(* of the answer.)                                                         *)
(***************************************************************************)
create_label_store(w) ==
    /\ workers[w].pc = "store"
    /\ LET label_id == workers[w].label_id
           r == store_label_data(labels, label_id, workers[w].data)
       IN  /\ labels' = r.table
           /\ last' = IF r.raised
                      THEN [op |-> "create_label", status |-> 500,
                            error |-> "Internal server error"]
                      ELSE [op |-> "create_label", status |-> 201,
                            message |-> "Exhibit label data successfully saved.",
                            label_id |-> label_id,
                            url |-> url_for_exhibit(label_id),
                            data |-> workers[w].data]
           /\ written' = IF HasRow(labels, label_id) THEN written
                         ELSE [written EXCEPT ![label_id] = workers[w].data]
    /\ workers' = [workers EXCEPT ![w] = Idle]
    /\ UNCHANGED <<uploads, used>>

\* Variant of delete_label: answers 200 whether or not a row was removed.
delete_label_always_ok(label_id) ==
    /\ LET r == delete_label_data(labels, label_id)
       IN  /\ labels' = r.table
           /\ last' = [op |-> "delete_label", label_id |-> label_id,
                       status |-> 200, message |-> "deleted successfully"]
    /\ written' = IF HasRow(labels, label_id)
                  THEN [written EXCEPT ![label_id] = Removed] ELSE written
    /\ UNCHANGED <<uploads, used, workers>>

\* Variant of delete_label: the files of the upload folder go with the row.
delete_label_cascade(label_id) ==
    /\ LET r == delete_label_data(labels, label_id)
       IN  /\ labels' = r.table
           /\ uploads' = IF r.removed THEN {} ELSE uploads
           /\ last' = IF r.removed
                      THEN [op |-> "delete_label", label_id |-> label_id,
                            status |-> 200, message |-> "deleted successfully"]
                      ELSE [op |-> "delete_label", label_id |-> label_id,
                            status |-> 404, error |-> "Could not delete label"]
    /\ written' = IF HasRow(labels, label_id)
                  THEN [written EXCEPT ![label_id] = Removed] ELSE written
    /\ UNCHANGED <<used, workers>>

(***************************************************************************)
(* DELETE /api/delete_label/<label_id>                                     *)
(***************************************************************************)
delete_label(label_id) ==
    /\ LET r == delete_label_data(labels, label_id)
       IN  /\ labels' = r.table
           /\ last' = IF r.removed
                      THEN [op |-> "delete_label", label_id |-> label_id,
                            status |-> 200, message |-> "deleted successfully"]
                      ELSE [op |-> "delete_label", label_id |-> label_id,
                            status |-> 404, error |-> "Could not delete label"]
    /\ written' = IF HasRow(labels, label_id)
                  THEN [written EXCEPT ![label_id] = Removed] ELSE written
    /\ UNCHANGED <<uploads, used, workers>>

(***************************************************************************)
(* GET /exhibit/<label_id>, first part: get_all_label_summaries() reads    *)
(* the sidebar's documents.  get_label_data opens a connection of its own, *)
(* so another request may commit before it reads.                          *)
(***************************************************************************)
unified_exhibit_site_begin(w, label_id) ==
    /\ workers[w].pc = "idle"
    /\ workers' = [workers EXCEPT ![w] =
                       [pc |-> "fetch", label_id |-> label_id,
                        all_exhibits |-> get_all_label_summaries(labels)]]
    /\ UNCHANGED <<labels, uploads, used, last, written>>

\* Variant of unified_exhibit_site_fetch: the `if not label_data` check is
\* missing, so None reaches .get like any other value that is not a dict.
unified_exhibit_site_no_check(w) ==
    /\ workers[w].pc = "fetch"
    /\ LET label_id == workers[w].label_id
           label_data == get_label_data(labels, label_id)
       IN  last' =
             IF label_data.t # "dict"
             THEN [op |-> "exhibit", label_id |-> label_id, status |-> 500]
             ELSE [op |-> "exhibit", label_id |-> label_id, status |-> 200,
                   page |-> "base_site.html",
                   all_exhibits |-> workers[w].all_exhibits,
                   current_exhibit |-> label_data,
                   current_template |-> current_template_of(label_data),
                   layout |-> rendered_layout(current_template_of(label_data)),
                   qr_code_image |->
                       generate_qrcode_base64(external_url(url_for_exhibit(label_id)))]
    /\ workers' = [workers EXCEPT ![w] = Idle]
    /\ UNCHANGED <<labels, uploads, used, written>>

(***************************************************************************)
(* GET /exhibit/<label_id>, second part: get_label_data and the answer.    *)
(* A document that is not a dict has no .get: AttributeError, which Flask  *)
(* answers with 500.                                                       *)
(***************************************************************************)
unified_exhibit_site_fetch(w) ==
    /\ workers[w].pc = "fetch"
    /\ LET label_id == workers[w].label_id
           all_exhibits == workers[w].all_exhibits
           label_data == get_label_data(labels, label_id)
           full_url == external_url(url_for_exhibit(label_id))
           qr_code_image == generate_qrcode_base64(full_url)
       IN  last' =
             IF ~Truthy(label_data)
             THEN [op |-> "exhibit", label_id |-> label_id, status |-> 404,
                   page |-> "error_404.html"]
             ELSE IF label_data.t # "dict"
             THEN [op |-> "exhibit", label_id |-> label_id, status |-> 500]
             ELSE [op |-> "exhibit", label_id |-> label_id, status |-> 200,
                   page |-> "base_site.html",
                   all_exhibits |-> all_exhibits,
                   current_exhibit |-> label_data,
                   current_template |-> current_template_of(label_data),
                   layout |-> rendered_layout(current_template_of(label_data)),
                   qr_code_image |-> qr_code_image]
    /\ workers' = [workers EXCEPT ![w] = Idle]
    /\ UNCHANGED <<labels, uploads, used, written>>

(***************************************************************************)
(* POST /api/upload.  `if file` is bool(file.filename), true here.         *)
(***************************************************************************)
upload_file(file) ==
    /\ IF ~file.has_file
       THEN /\ last' = [op |-> "upload", status |-> 400,
                        error |-> "No file part in the request"]
            /\ UNCHANGED <<uploads, used>>
       ELSE IF file.filename = <<>>
       THEN /\ last' = [op |-> "upload", status |-> 400,
                        error |-> "No selected file"]
            /\ UNCHANGED <<uploads, used>>
       ELSE IF allowed_file(file.filename)
       THEN \E u \in Uuids \ used :
                LET filename == secure_filename(file.filename)
                    unique_filename == u \o <<"_">> \o filename
                IN  /\ used' = used \cup {u}
                    /\ uploads' = uploads \cup {unique_filename}
                    /\ last' = [op |-> "upload", status |-> 200,
                                success |-> TRUE,
                                filename |-> unique_filename,
                                media_uri |-> url_for_uploaded_file(unique_filename)]
       ELSE /\ last' = [op |-> "upload", status |-> 400,
                        error |-> "File type not allowed"]
            /\ UNCHANGED <<uploads, used>>
    /\ UNCHANGED <<labels, workers, written>>

\* The routes that write labels, any number of creates in flight.
Next ==
    \/ \E w \in Workers, body \in JsonRequests : create_label_begin(w, body)
    \/ \E w \in Workers, body \in OtherRequests : create_label_begin(w, body)
    \/ \E w \in Workers : create_label_store(w)
    \/ \E id \in RequestIds : delete_label(id)

Spec == Init /\ [][Next]_vars

\* The viewer beside the creation and deletion of labels: one create (in
\* slot 1) and one view (in slot 2) at a time, in any interleaving.
ViewBodies == JsonRequests \cup {[kind |-> "json", v |-> DocListTemplate]}

NextView ==
    \/ \E body \in ViewBodies : create_label_begin(1, body)
    \/ create_label_store(1)
    \/ \E id \in RequestIds : delete_label(id)
    \/ \E id \in RequestIds : unified_exhibit_site_begin(2, id)
    \/ unified_exhibit_site_fetch(2)

SpecView == Init /\ [][NextView]_vars

\* The upload route.
NextUpload == \E file \in UploadRequests : upload_file(file)

SpecUpload == Init /\ [][NextUpload]_vars

\* Uploads beside the creation and deletion of labels that refer to them
\* (one create at a time).
MediaUploads == {[has_file |-> TRUE, filename |-> <<"a", ".", "p", "n", "g">>],
                 [has_file |-> TRUE, filename |-> <<"a", ".", "e", "x", "e">>]}
MediaBodies == {[kind |-> "json", v |-> DocWithMedia]}

NextMedia ==
    \/ \E file \in MediaUploads : upload_file(file)
    \/ \E body \in MediaBodies : create_label_begin(1, body)
    \/ create_label_store(1)
    \/ \E id \in LabelIds : delete_label(id)

SpecMedia == Init /\ [][NextMedia]_vars

(***************************************************************************)
(* The store called directly: store_label_data, get_label_data and         *)
(* delete_label_data on any identifier and document.                       *)
(***************************************************************************)
StoreCall(label_id, data) ==
    /\ LET r == store_label_data(labels, label_id, data)
       IN  /\ labels' = r.table
           /\ last' = [op |-> "store_label_data", label_id |-> label_id,
                       data |-> data, raised |-> r.raised,
                       had_row |-> HasRow(labels, label_id)]
    /\ written' = IF HasRow(labels, label_id) THEN written
                  ELSE [written EXCEPT ![label_id] = data]
    /\ UNCHANGED <<uploads, used, workers>>

GetCall(label_id) ==
    /\ last' = [op |-> "get_label_data", label_id |-> label_id,
                result |-> get_label_data(labels, label_id)]
    /\ UNCHANGED <<labels, uploads, used, workers, written>>

DeleteCall(label_id) ==
    /\ LET r == delete_label_data(labels, label_id)
       IN  /\ labels' = r.table
           /\ last' = [op |-> "delete_label_data", label_id |-> label_id,
                       removed |-> r.removed]
    /\ written' = IF HasRow(labels, label_id)
                  THEN [written EXCEPT ![label_id] = Removed] ELSE written
    /\ UNCHANGED <<uploads, used, workers>>

NextStore ==
    \/ \E id \in LabelIds, d \in StoreDocs : StoreCall(id, d)
    \/ \E id \in LabelIds : GetCall(id)
    \/ \E id \in LabelIds : DeleteCall(id)

SpecStore == Init /\ [][NextStore]_vars

(***************************************************************************)
(* Properties                                                              *)
(***************************************************************************)
\* written[id] is a document: id was stored under and not deleted since.
IsDoc(x) == x \notin {NoDoc, Removed}

\* C1: round trip through the store.  A get_label_data(id) that follows a
\* store_label_data(id, d) on an id that held no row, with no delete of id
\* in between, returns a document equal to d.
RoundTrip ==
    (last.op = "get_label_data" /\ IsDoc(written[last.label_id]))
        => last.result = written[last.label_id]

\* A fetch returned the nested document, escapes and all.
RoundTripWitness ==
    /\ last.op = "get_label_data"
    /\ written[last.label_id] = DocNested
    /\ last.result = DocNested

\* C2: the status of POST /api/create_label reflects the store write: 201
\* with label_id L and url /exhibit/L only when this request inserted the
\* row of L, and 500 whenever the insert fails (the id already holds a row).
CreateStatusReflectsWrite ==
    [][\A w \in Workers :
          create_label_store(w) =>
              LET id == workers[w].label_id
              IN  /\ last'.status \in {201, 500}
                  /\ last'.status = 201 =>
                        /\ last'.label_id = id
                        /\ last'.url = url_for_exhibit(id)
                        /\ ~HasRow(labels, id)
                        /\ get_label_data(labels', id) = workers[w].data
                  /\ HasRow(labels, id) => last'.status = 500]_vars

\* C3: store_label_data on an identifier that already holds a row raises to
\* its caller, and the row keeps the document it was inserted with.
CreateOnExistingFails ==
    (last.op = "store_label_data" /\ last.had_row)
        => /\ last.raised
           /\ get_label_data(labels, last.label_id) = written[last.label_id]

\* C4: delete reports whether a row was removed.  DELETE
\* /api/delete_label/<id> answers 200 when id was created and not deleted
\* since, and removes the row; it answers 404 when id was never created or
\* was already deleted.
DeleteReportsRemoval ==
    [][\A id \in RequestIds :
          delete_label(id) =>
              /\ last'.status = (IF IsDoc(written[id]) THEN 200 ELSE 404)
              /\ ~HasRow(labels', id)
              /\ written'[id] = (IF written[id] = NoDoc THEN NoDoc ELSE Removed)]_vars

\* A delete of an identifier that was created and already deleted: 404.
DeleteReportsRemovalWitness ==
    /\ last.op = "delete_label"
    /\ last.status = 404
    /\ written[last.label_id] = Removed

\* C5: absence is reported.  get_label_data(id) is None for every id that
\* was never created or whose row was deleted, and GET /exhibit/<id> for
\* such an id answers 404 with the not-found page.
AbsentIsNotFound ==
    /\ \A id \in RequestIds :
           ~IsDoc(written[id]) => get_label_data(labels, id) = PyNone
    /\ (last.op = "exhibit" /\ ~IsDoc(written[last.label_id]))
           => /\ last.status = 404
              /\ last.page = "error_404.html"

\* The viewer was asked for a label that was created and then deleted.
AbsentIsNotFoundWitness ==
    /\ last.op = "exhibit"
    /\ last.status = 404
    /\ written[last.label_id] = Removed

\* The layout the viewer shows for a document: the one its template field
\* names when that is minimalist, timeline or gallery, else the default.
ExpectedLayout(doc) ==
    LET names == {<<"m", "i", "n", "i", "m", "a", "l", "i", "s", "t">>, <<"t", "i", "m", "e", "l", "i", "n", "e">>, <<"g", "a", "l", "l", "e", "r", "y">>}
        field == IF doc.t = "dict" THEN DictGet(doc, <<"t", "e", "m", "p", "l", "a", "t", "e">>, PyNone)
                 ELSE PyNone
    IN  IF field.t = "str" /\ field.s \in names
        THEN field.s \o <<"_", "l", "a", "b", "e", "l", ".", "h", "t", "m", "l">>
        ELSE <<"m", "i", "n", "i", "m", "a", "l", "i", "s", "t", "_", "l", "a", "b", "e", "l", ".", "h", "t", "m", "l">>

\* C6: template selection with fallback.  For every stored label GET
\* /exhibit/<id> answers 200 with the layout its template field names, or
\* the default layout when the field is missing or unrecognized.
TemplateFallback ==
    (last.op = "exhibit" /\ IsDoc(written[last.label_id]))
        => /\ last.status = 200
           /\ last.layout = ExpectedLayout(written[last.label_id])

\* C7: POST /api/create_label answers 400, writing no row, exactly when the
\* request carries no JSON body; a request with a JSON document, whatever
\* its content, goes on to the store.
CreateRejectsOnlyMissingBody ==
    [][\A w \in Workers, body \in Bodies :
          create_label_begin(w, body) =>
              IF body.kind = "json"
              THEN workers'[w].pc = "store" /\ workers'[w].data = body.v
              ELSE last'.status = 400 /\ labels' = labels /\ workers' = workers]_vars

\* The final dot-delimited segment of a name that holds a dot.
FinalSegment(name) ==
    CHOOSE ext \in {SubSeq(name, n + 1, Len(name)) : n \in 1..Len(name)} :
        /\ \A m \in 1..Len(ext) : ext[m] # "."
        /\ name[Len(name) - Len(ext)] = "."

\* The uploads the acceptance rule turns away.
UploadRejected(file) ==
    \/ ~file.has_file
    \/ file.filename = <<>>
    \/ \A n \in 1..Len(file.filename) : file.filename[n] # "."
    \/ Lower(FinalSegment(file.filename)) \notin
           {<<"p", "n", "g">>, <<"j", "p", "g">>, <<"j", "p", "e", "g">>, <<"g", "i", "f">>, <<"m", "p", "3">>, <<"w", "a", "v">>}

\* C8: upload acceptance.  POST /api/upload answers 400 and writes no file
\* when there is no file part, the filename is empty, or its final
\* dot-delimited segment (case-insensitively) is not an allowed extension;
\* otherwise it answers 200, writes exactly one new file, and returns its
\* name and retrieval URI.
UploadAcceptance ==
    [][\A file \in UploadRequests :
          (last'.op = "upload" /\ upload_file(file)) =>
              IF UploadRejected(file)
              THEN last'.status = 400 /\ uploads' = uploads
              ELSE /\ last'.status = 200
                   /\ last'.filename \notin uploads
                   /\ uploads' = uploads \cup {last'.filename}
                   /\ last'.media_uri = <<"/", "u", "p", "l", "o", "a", "d", "s", "/">> \o last'.filename]_vars

\* An upload whose extension is in upper case was accepted beside an
\* earlier file.
UploadAcceptanceWitness ==
    /\ last.op = "upload"
    /\ last.status = 200
    /\ \E u \in Uuids : last.filename = u \o <<"_", "a", ".", "P", "N", "G">>
    /\ Cardinality(uploads) = 2

\* C9: identifier uniqueness and immutability.  In every reachable state
\* there is at most one row per id, and it holds the document it was
\* inserted with: no later create overwrites it.
IdUniqueAndImmutable ==
    \A id \in RequestIds :
        /\ Cardinality({r \in labels : r.id = id}) <= 1
        /\ HasRow(labels, id) <=> IsDoc(written[id])
        /\ \A r \in labels : r.id = id => r.data = json_dumps(written[id])

\* A create answered after drawing the id of an existing row, with another
\* document than the row's.
IdUniqueAndImmutableWitness ==
    /\ last.op = "create_label"
    /\ last.status = 201
    /\ HasRow(labels, last.label_id)
    /\ last.data # written[last.label_id]

\* C10: frame of delete.  delete(id) removes at most the row of id: every
\* other row keeps its document and the files of the upload folder stay,
\* those the deleted document refers to included.
DeleteFrame ==
    [][\A id \in RequestIds :
          delete_label(id) =>
              /\ uploads' = uploads
              /\ labels' \subseteq labels
              /\ \A r \in labels : r.id # id => r \in labels']_vars

\* A label referring to an uploaded file was deleted, the file is there,
\* and so is another label.
DeleteFrameWitness ==
    /\ last.op = "delete_label"
    /\ last.status = 200
    /\ written[last.label_id] = Removed
    /\ MediaFile \in uploads
    /\ labels # {}

=============================================================================
